---- MODULE Spec2Model ----
(***************************************************************************)
(* Expression nodes (Number, Symbol, Add, Sub, Mul, Div, Pow), their       *)
(* construction through the arithmetic protocol, their rendering, and the  *)
(* postorder visitor, modelled from src/expressions/expressions.py.        *)
(*                                                                         *)
(* Node objects live in `heap`, a sequence of node records; the identity   *)
(* of a node is its index.  A Python value is a record with its type and   *)
(* its payload; a reference to a node is a value of type "Expression".     *)
(***************************************************************************)
EXTENDS Integers, Sequences, FiniteSets, TLC

VARIABLES
    heap,          \* the node objects constructed so far
    call,          \* the last construction call: its name and arguments
    result,        \* the node that call returned (0: none)
    error,         \* the exception that call raised ("none": none)
    expr,          \* postvisitor: the root argument (0: no traversal)
    kwargs,        \* postvisitor: the keyword arguments
    fails,         \* the kinds of node on which the caller's fn raises
    visited,       \* postvisitor: the dict node -> result of fn
    stack,         \* postvisitor: the work stack
    result_stack,  \* postvisitor: the list of results, in order
    pc,            \* postvisitor: "idle", "loop", "done" or "raised"
    returned,      \* what postvisitor returned
    calls,         \* history: the nodes fn was invoked on, in order
    raisedOn,      \* history: the node on which fn raised (0: none)
    seenAt,        \* history: node -> the nodes visited at its first pop
    rendered,      \* the node str() was last applied to (0: none)
    out            \* the text str() returned

consVars == <<heap, call, result, error>>
visitVars == <<expr, kwargs, fails, visited, stack, result_stack, pc,
               returned, calls, raisedOn, seenAt>>
strVars == <<rendered, out>>
vars == <<heap, call, result, error, expr, kwargs, fails, visited, stack,
          result_stack, pc, returned, calls, raisedOn, seenAt, rendered, out>>

---------------------------------------------------------------------------
(* Bounds *)

\* construction calls are made while fewer than MaxHeap nodes exist, and
\* allocate no more than MaxHeap nodes
MaxHeap == 3
\* the largest number of nodes of a graph handed to postvisitor
MaxNodes == 4
\* the largest number of operators of an expression that is rendered
MaxOps == 2

---------------------------------------------------------------------------
(* Python values *)

PyInt(n) == [type |-> "int", num |-> n, text |-> ""]
PyFloat(n) == [type |-> "float", num |-> n, text |-> ""]
PyStr(s) == [type |-> "str", num |-> 0, text |-> s]
Ref(n) == [type |-> "Expression", num |-> n, text |-> ""]
NoValue == [type |-> "NoneType", num |-> 0, text |-> ""]

\* the raw values callers pass: an int, a float (2.0) and a str
RawValues == {PyInt(2), PyFloat(2), PyStr("x")}

\* isinstance(value, (int, float))
IsNumeric(v) == v.type \in {"int", "float"}
\* isinstance(value, str)
IsStr(v) == v.type = "str"
\* isinstance(other, Expression)
IsExpression(v) == v.type = "Expression"

Ids(h) == 1..Len(h)

---------------------------------------------------------------------------
(* Construction.  A constructor or method returns the heap after it, the   *)
(* node it returned and the exception it raised.                           *)

Raised(h, e) == [heap |-> h, ret |-> 0, err |-> e]

\* a new object with its attributes
NewNode(h, kind, value, operands) ==
    [heap |-> Append(h, [kind |-> kind, value |-> value, operands |-> operands]),
     ret |-> Len(h) + 1,
     err |-> "none"]

\* Terminal.__init__(self, value): super().__init__(operands=()), then
\* self.value = value
Terminal(h, kind, value) == NewNode(h, kind, value, <<>>)

Number(h, value) ==
    IF ~IsNumeric(value)
    THEN Raised(h, "ValueError")
    ELSE Terminal(h, "Number", value)

Symbol(h, value) ==
    IF ~IsStr(value)
    THEN Raised(h, "ValueError")
    ELSE Terminal(h, "Symbol", value)

\* Kind(*args) of an Operator class, which inherits
\* Expression.__init__(self, operands=()): one positional argument at most,
\* the tuple of operands; a call with more is a TypeError of the call itself
Operator(h, kind, args) ==
    IF Len(args) > 1
    THEN Raised(h, "TypeError")
    ELSE NewNode(h, kind, NoValue, IF Len(args) = 0 THEN <<>> ELSE args[1])

\* other if isinstance(other, Expression) else Number(other)
Coerce(h, other) ==
    IF IsExpression(other)
    THEN [heap |-> h, ret |-> other.num, err |-> "none"]
    ELSE Number(h, other)

\* Kind(self, other if isinstance(other, Expression) else Number(other));
\* when the call raises, the Number made for it is dropped
Forward(h, kind, self, other) ==
    LET c == Coerce(h, other)
    IN  IF c.err # "none" THEN c
        ELSE LET o == Operator(c.heap, kind, <<self, c.ret>>)
             IN  IF o.err # "none" THEN Raised(h, o.err) ELSE o

\* Kind(Number(other), self)
Reversed(h, kind, self, other) ==
    LET c == Number(h, other)
    IN  IF c.err # "none" THEN c
        ELSE LET o == Operator(c.heap, kind, <<c.ret, self>>)
             IN  IF o.err # "none" THEN Raised(h, o.err) ELSE o

add(h, self, other) == Forward(h, "Add", self, other)

radd(h, self, other) == add(h, self, other)

sub(h, self, other) == Forward(h, "Sub", self, other)

rsub(h, self, other) == Reversed(h, "Sub", self, other)

mul(h, self, other) == Forward(h, "Mul", self, other)

rmul(h, self, other) == mul(h, self, other)

truediv(h, self, other) == Forward(h, "Div", self, other)

rtruediv(h, self, other) == Reversed(h, "Div", self, other)

pow(h, self, other) == Forward(h, "Pow", self, other)

rpow(h, self, other) == Reversed(h, "Pow", self, other)

\* what a right operand of a binary operation can be: a node or a raw value
Others(h) == {Ref(n) : n \in Ids(h)} \cup RawValues

\* one construction call, with the state it leaves
Construct(op, self, other, r) ==
    /\ pc = "idle"
    /\ Len(heap) < MaxHeap
    /\ Len(r.heap) <= MaxHeap
    /\ heap' = r.heap
    /\ result' = r.ret
    /\ error' = r.err
    /\ call' = [op |-> op, self |-> self, other |-> other]
    /\ UNCHANGED <<visitVars, strVars>>

OperatorKinds == {"Add", "Sub", "Mul", "Div", "Pow"}

\* Kind((left, right)): an operator built from the tuple of its operands
NewOperator ==
    \E kind \in OperatorKinds, left \in Ids(heap), right \in Ids(heap) :
        Construct(kind, left, Ref(right), Operator(heap, kind, <<(<<left, right>>)>>))

NewNumber == \E v \in RawValues : Construct("Number", 0, v, Number(heap, v))

NewSymbol == \E v \in RawValues : Construct("Symbol", 0, v, Symbol(heap, v))

DoAdd == \E a \in Ids(heap), o \in Others(heap) : Construct("add", a, o, add(heap, a, o))

DoRadd == \E a \in Ids(heap), o \in RawValues : Construct("radd", a, o, radd(heap, a, o))

DoSub == \E a \in Ids(heap), o \in Others(heap) : Construct("sub", a, o, sub(heap, a, o))

DoRsub == \E a \in Ids(heap), o \in RawValues : Construct("rsub", a, o, rsub(heap, a, o))

DoMul == \E a \in Ids(heap), o \in Others(heap) : Construct("mul", a, o, mul(heap, a, o))

DoRmul == \E a \in Ids(heap), o \in RawValues : Construct("rmul", a, o, rmul(heap, a, o))

DoTruediv ==
    \E a \in Ids(heap), o \in Others(heap) : Construct("truediv", a, o, truediv(heap, a, o))

DoRtruediv ==
    \E a \in Ids(heap), o \in RawValues : Construct("rtruediv", a, o, rtruediv(heap, a, o))

DoPow == \E a \in Ids(heap), o \in Others(heap) : Construct("pow", a, o, pow(heap, a, o))

DoRpow == \E a \in Ids(heap), o \in RawValues : Construct("rpow", a, o, rpow(heap, a, o))

---------------------------------------------------------------------------
(* The caller's combining function.  fn(node, *o, **kwargs) is any          *)
(* deterministic function: it is modelled by the free one, whose result     *)
(* records the node, the operands' results in the order given and the       *)
(* keyword arguments.  It raises on the kinds of node in `fails` (an        *)
(* evaluator that knows no value for a Symbol raises on it).                *)

fn(node, o, kw) == [node |-> node, args |-> o, kwargs |-> kw]

FnRaises(node) == heap[node].kind \in fails

\* no result: what a call that raised leaves
NoResult == [node |-> 0, args |-> <<>>, kwargs |-> ""]

\* the keyword arguments and the failing kinds a caller chooses
AuxValues == {"aux"}
FnFailures == {{}, {"Symbol"}, {"Add"}}

---------------------------------------------------------------------------
(* postvisitor *)

operands(node) == heap[node].operands

\* a dict that still holds the results of an earlier traversal for the
\* terminals
StaleVisited ==
    [n \in {i \in Ids(heap) : heap[i].operands = <<>>} |-> fn(n, <<>>, "stale")]

\* visited = {}
FreshVisited == [n \in {} |-> 0]

\* node = stack.pop()
Top == stack[Len(stack)]
Popped == SubSeq(stack, 1, Len(stack) - 1)

\* the test of line 115 left out
NeverVisited(node) == FALSE

\* if node in visited
AlreadyVisited(node) == node \in DOMAIN visited

\* all(c in visited for c in node.operands)
Ready(node) == \A i \in 1..Len(operands(node)) : operands(node)[i] \in DOMAIN visited

\* the operands' results in reverse order
ArgsReversed(node) ==
    [i \in 1..Len(operands(node)) |-> visited[operands(node)[Len(operands(node)) + 1 - i]]]

\* *(visited[c] for c in node.operands)
Args(node) == [i \in 1..Len(operands(node)) |-> visited[operands(node)[i]]]

\* the node not pushed back
NotPushedBack(stk, node) == stk

\* stack.append(node)
PushBack(stk, node) == Append(stk, node)

Reverse(s) == [i \in 1..Len(s) |-> s[Len(s) + 1 - i]]

Unvisited(s) == LET NotIn(c) == c \notin DOMAIN visited IN SelectSeq(s, NotIn)

\* the operands pushed in operand order
PushesInOrder(node) == Unvisited(operands(node))

\* for child in reversed(node.operands): if child not in visited: stack.append(child)
Pushes(node) == Unvisited(Reverse(operands(node)))

\* history: the table at the first pop of a node
FirstPop(node) ==
    IF node \in DOMAIN seenAt THEN seenAt ELSE seenAt @@ (node :> DOMAIN visited)

\* postvisitor(expr, fn, **kwargs) is entered
Start ==
    /\ pc = "idle"
    /\ \E root \in Ids(heap), kw \in AuxValues, f \in FnFailures :
          /\ expr' = root
          /\ kwargs' = kw
          /\ fails' = f
          /\ stack' = <<root>>
    /\ visited' = FreshVisited
    /\ result_stack' = <<>>
    /\ pc' = "loop"
    /\ UNCHANGED <<heap, call, result, error, returned, calls, raisedOn, seenAt, strVars>>

\* an iteration that pops a node already in visited
Discard ==
    /\ pc = "loop"
    /\ stack # <<>>
    /\ AlreadyVisited(Top)
    /\ stack' = Popped
    /\ UNCHANGED <<heap, call, result, error, expr, kwargs, fails, visited,
                   result_stack, pc, returned, calls, raisedOn, seenAt, strVars>>

\* an iteration that applies fn to a ready node, fn returning
Combine ==
    /\ pc = "loop"
    /\ stack # <<>>
    /\ ~AlreadyVisited(Top)
    /\ Ready(Top)
    /\ ~FnRaises(Top)
    /\ LET r == fn(Top, Args(Top), kwargs)
       IN  /\ visited' = (Top :> r) @@ visited
           /\ result_stack' = Append(result_stack, r)
    /\ stack' = Popped
    /\ calls' = Append(calls, Top)
    /\ seenAt' = FirstPop(Top)
    /\ UNCHANGED <<heap, call, result, error, expr, kwargs, fails, pc, returned,
                   raisedOn, strVars>>

\* the exception caught, a default recorded and the loop going on
Swallow(node) ==
    /\ visited' = (node :> NoResult) @@ visited
    /\ stack' = Popped
    /\ UNCHANGED <<pc, error>>

\* the exception leaves postvisitor: nothing is recorded, nothing returned
Propagate(node) ==
    /\ pc' = "raised"
    /\ error' = "FnError"
    /\ UNCHANGED <<visited, stack>>

\* an iteration that applies fn to a ready node, fn raising
CombineRaise ==
    /\ pc = "loop"
    /\ stack # <<>>
    /\ ~AlreadyVisited(Top)
    /\ Ready(Top)
    /\ FnRaises(Top)
    /\ calls' = Append(calls, Top)
    /\ raisedOn' = Top
    /\ seenAt' = FirstPop(Top)
    /\ Propagate(Top)
    /\ UNCHANGED <<heap, call, result, expr, kwargs, fails, result_stack,
                   returned, strVars>>

\* an iteration that finds the node not ready
Requeue ==
    /\ pc = "loop"
    /\ stack # <<>>
    /\ ~AlreadyVisited(Top)
    /\ ~Ready(Top)
    /\ stack' = PushBack(Popped, Top) \o Pushes(Top)
    /\ seenAt' = FirstPop(Top)
    /\ UNCHANGED <<heap, call, result, error, expr, kwargs, fails, visited,
                   result_stack, pc, returned, calls, raisedOn, strVars>>

\* the loop ends: return visited[expr]
Return ==
    /\ pc = "loop"
    /\ stack = <<>>
    /\ IF expr \in DOMAIN visited
       THEN /\ returned' = visited[expr]
            /\ pc' = "done"
            /\ error' = "none"
       ELSE /\ returned' = NoResult
            /\ pc' = "raised"
            /\ error' = "KeyError"
    /\ UNCHANGED <<heap, call, result, expr, kwargs, fails, visited, stack,
                   result_stack, calls, raisedOn, seenAt, strVars>>

---------------------------------------------------------------------------
(* Rendering: Operator.__str__ and Terminal.__str__ *)

\* float('inf'), the precedence of a Terminal
Inf == -1

precedence(kind) ==
    CASE kind \in {"Add", "Sub"} -> 1
      [] kind \in {"Mul", "Div"} -> 2
      [] kind = "Pow" -> 3
      [] OTHER -> Inf

symbol(kind) ==
    CASE kind = "Add" -> "+"
      [] kind = "Sub" -> "-"
      [] kind = "Mul" -> "*"
      [] kind = "Div" -> "/"
      [] kind = "Pow" -> "^"

\* p <= q on precedences
LessOrEqual(p, q) == p = q \/ (p # Inf /\ (q = Inf \/ p < q))

\* p < q on precedences, Inf being above every number
Less(p, q) == p # Inf /\ (q = Inf \/ p < q)

Digits == <<"0", "1", "2", "3", "4", "5", "6", "7", "8", "9">>

\* str() of an int
RECURSIVE IntStr(_)
IntStr(n) ==
    IF n < 0 THEN "-" \o IntStr(0 - n)
    ELSE IF n < 10 THEN Digits[n + 1]
    ELSE IntStr(n \div 10) \o Digits[(n % 10) + 1]

\* str(self.value): a str as it is, an int in decimal, a float (of integral
\* value) in decimal with ".0"
ValueStr(v) ==
    CASE v.type = "str" -> v.text
      [] v.type = "int" -> IntStr(v.num)
      [] v.type = "float" -> IntStr(v.num) \o ".0"

RECURSIVE Str(_, _)
Str(h, node) ==
    IF h[node].operands = <<>>
    THEN ValueStr(h[node].value)
    ELSE LET left == h[node].operands[1]
             right == h[node].operands[2]
             self == precedence(h[node].kind)
             left_str == IF Less(precedence(h[left].kind), self)
                         THEN "(" \o Str(h, left) \o ")"
                         ELSE Str(h, left)
             right_str == IF Less(precedence(h[right].kind), self)
                          THEN "(" \o Str(h, right) \o ")"
                          ELSE Str(h, right)
         IN  left_str \o " " \o symbol(h[node].kind) \o " " \o right_str

\* str(node)
Render ==
    /\ pc = "idle"
    /\ \E node \in Ids(heap) :
          /\ rendered' = node
          /\ out' = Str(heap, node)
    /\ UNCHANGED <<consVars, visitVars>>

NoCall == [op |-> "none", self |-> 0, other |-> NoValue]

EmptyDict == [n \in {} |-> 0]

\* no traversal and no rendering in progress
Quiet ==
    /\ expr = 0
    /\ kwargs = ""
    /\ fails = {}
    /\ visited = EmptyDict
    /\ stack = <<>>
    /\ result_stack = <<>>
    /\ pc = "idle"
    /\ returned = NoResult
    /\ calls = <<>>
    /\ raisedOn = 0
    /\ seenAt = EmptyDict
    /\ rendered = 0
    /\ out = ""

Init ==
    /\ heap = <<>>
    /\ call = NoCall
    /\ result = 0
    /\ error = "none"
    /\ Quiet

Next ==
    \/ NewNumber
    \/ NewSymbol
    \/ NewOperator
    \/ DoAdd
    \/ DoRadd
    \/ DoSub
    \/ DoRsub
    \/ DoMul
    \/ DoRmul
    \/ DoTruediv
    \/ DoRtruediv
    \/ DoPow
    \/ DoRpow

Spec == Init /\ [][Next]_vars

---------------------------------------------------------------------------
(* The traversals of every graph of at most MaxNodes nodes.  The graphs    *)
(* are the heaps the constructors build from a Number, a Symbol and the    *)
(* operators of VisitKinds: postvisitor reads nothing of a node but its    *)
(* operands.                                                               *)

VisitKinds == {"Add"}

Grow(h) ==
    {Number(h, PyInt(2)).heap, Symbol(h, PyStr("x")).heap}
        \cup {Operator(h, k, <<(<<l, r>>)>>).heap : k \in VisitKinds, l \in Ids(h), r \in Ids(h)}

RECURSIVE HeapsOfLen(_)
HeapsOfLen(n) ==
    IF n = 0 THEN {<<>>} ELSE UNION {Grow(h) : h \in HeapsOfLen(n - 1)}

VisitInit ==
    /\ heap \in UNION {HeapsOfLen(n) : n \in 1..MaxNodes}
    /\ call = NoCall
    /\ result = 0
    /\ error = "none"
    /\ Quiet

VisitNext ==
    \/ Start
    \/ Discard
    \/ Combine
    \/ CombineRaise
    \/ Requeue
    \/ Return

VisitSpec == VisitInit /\ [][VisitNext]_vars

\* the loop of postvisitor runs on: no iteration is postponed for ever
LiveSpec == VisitSpec /\ WF_vars(VisitNext)

-------------------------------------------------------------------------------------------------------------------------------------------------
(* The renderings of every expression tree of at most MaxOps operators.    *)
(* The leaves of a tree are, from left to right, the Symbols x, y, z, ...  *)
(* or the Numbers 9, 10, 11, ...: a leaf renders as its payload whatever   *)
(* the tree around it, and parentheses depend on the kinds alone.          *)

Names == <<"x", "y", "z", "u", "v", "w">>

Leaf(i, numeric) ==
    IF numeric THEN Number(<<>>, PyInt(8 + i)).heap ELSE Symbol(<<>>, PyStr(Names[i])).heap

\* the nodes of r, placed after d other nodes
Shift(r, d) ==
    [i \in 1..Len(r) |->
        [r[i] EXCEPT !.operands = [j \in 1..Len(r[i].operands) |-> r[i].operands[j] + d]]]

\* Kind((l, r)), of two expressions built apart
Join(l, r, kind) ==
    Operator(l \o Shift(r, Len(l)), kind, <<(<<Len(l), Len(l) + Len(r)>>)>>).heap

\* the trees of k operators whose leftmost leaf is the first-th
RECURSIVE Trees(_, _, _)
Trees(k, first, numeric) ==
    IF k = 0 THEN {Leaf(first, numeric)}
    ELSE UNION {{Join(t[1], t[2], t[3]) :
                    t \in Trees(i, first, numeric)
                            \X Trees(k - 1 - i, first + i + 1, numeric)
                            \X OperatorKinds} :
                   i \in 0..(k - 1)}

RenderInit ==
    /\ \E k \in 0..MaxOps, numeric \in BOOLEAN : heap \in Trees(k, 1, numeric)
    /\ call = NoCall
    /\ result = 0
    /\ error = "none"
    /\ Quiet

RenderNext == Render

RenderSpec == RenderInit /\ [][RenderNext]_vars

---------------------------------------------------------------------------
(* Properties *)

Called == {calls[i] : i \in 1..Len(calls)}

\* the place of a node in the order fn was applied
Pos(node) == CHOOSE i \in 1..Len(calls) : calls[i] = node

\* the nodes reachable from a node, itself included
RECURSIVE Reach(_)
Reach(node) ==
    {node} \cup UNION {Reach(operands(node)[i]) : i \in 1..Len(operands(node))}

\* the number of nodes of the expression written out as a tree
RECURSIVE TreeSize(_)
TreeSize(node) ==
    IF operands(node) = <<>> THEN 1
    ELSE 1 + TreeSize(operands(node)[1]) + TreeSize(operands(node)[2])

\* the recursive bottom-up fold of fn
RECURSIVE Fold(_)
Fold(node) ==
    fn(node, [i \in 1..Len(operands(node)) |-> Fold(operands(node)[i])], kwargs)

IsOperator(node) == operands(node) # <<>>

\* C1: in a traversal fn is invoked at most once on each node, and every
\* occurrence of a node as an operand is given the result recorded for it.
C1_AtMostOnce ==
    /\ \A i, j \in 1..Len(calls) : calls[i] = calls[j] => i = j
    /\ \A n \in DOMAIN visited :
          /\ Len(visited[n].args) = Len(operands(n))
          /\ \A i \in 1..Len(operands(n)) :
                /\ operands(n)[i] \in DOMAIN visited
                /\ visited[n].args[i] = visited[operands(n)[i]]

\* a finished traversal of an operator whose two operands are one operator
C1_Witness ==
    /\ pc = "done"
    /\ \E n \in Called :
          /\ IsOperator(n)
          /\ operands(n)[1] = operands(n)[2]
          /\ IsOperator(operands(n)[1])

\* C2: when fn is applied to a node, fn has been applied before to every
\* operand of the node, and the result is recorded.
C2_OperandsFirst ==
    \A i \in 1..Len(calls) :
        \A k \in 1..Len(operands(calls[i])) :
            /\ \E j \in 1..(i - 1) : calls[j] = operands(calls[i])[k]
            /\ operands(calls[i])[k] \in DOMAIN visited

\* fn applied to an operator one of whose operands is an operator
C2_Witness ==
    \E n \in Called :
        /\ IsOperator(n)
        /\ IsOperator(operands(n)[2])

\* C3: postvisitor returns the recursive bottom-up fold of fn over the root,
\* operand results in operand order, the keyword arguments in every call.
C3_ReturnsFold == pc = "done" => returned = Fold(expr)

\* a returned result whose two operand results differ, under keyword "aux"
C3_Witness ==
    /\ pc = "done"
    /\ kwargs = "aux"
    /\ IsOperator(expr)
    /\ returned.args[1] # returned.args[2]
    /\ returned.args[2].args # <<>>

\* C4: once fn has raised, the traversal has stopped: the exception has
\* left postvisitor, fn is applied to no further node, nothing is returned
\* and nothing is recorded for the failing node.
C4_ErrorPropagates ==
    raisedOn # 0 =>
        /\ pc = "raised"
        /\ error = "FnError"
        /\ returned = NoResult
        /\ raisedOn \notin DOMAIN visited
        /\ calls[Len(calls)] = raisedOn
        /\ Len(result_stack) = Len(calls) - 1

\* fn raised after it had returned for other nodes, with work left
C4_Witness ==
    /\ raisedOn # 0
    /\ Len(calls) > 1
    /\ Len(stack) > 1

\* C9: a traversal on which fn does not raise ends, with the stack empty
\* and the root visited, fn having been applied exactly once to each node
\* reachable from the root.
C9_Finished ==
    /\ pc = "done"
    /\ stack = <<>>
    /\ expr \in DOMAIN visited
    /\ Called = Reach(expr)
    /\ Len(calls) = Cardinality(Reach(expr))

C9_Terminates ==
    (pc = "loop" /\ \A n \in Reach(expr) : ~FnRaises(n)) ~> C9_Finished

\* a finished traversal of a graph with fewer nodes than root-to-leaf walks
C9_Witness ==
    /\ C9_Finished
    /\ Cardinality(Reach(expr)) >= 3
    /\ TreeSize(expr) > Cardinality(Reach(expr))

\* C10 as stated: fn is applied to the left operand before the right one,
\* and to both before the node.
C10_LeftBeforeRight ==
    \A n \in Called :
        (IsOperator(n) /\ operands(n)[1] # operands(n)[2]) =>
            /\ Pos(operands(n)[1]) < Pos(operands(n)[2])
            /\ Pos(operands(n)[2]) < Pos(n)

\* C10 as amended: fn is applied to both operands before the node, and to
\* the left operand before the right one when the right one is another node,
\* was not yet visited at the first pop of the node, and is not reachable
\* from the left one.
C10_LeftFirstUnlessShared ==
    \A n \in Called :
        IsOperator(n) =>
            LET left == operands(n)[1]
                right == operands(n)[2]
            IN  /\ Pos(left) < Pos(n)
                /\ Pos(right) < Pos(n)
                /\ (/\ left # right
                    /\ right \notin seenAt[n]
                    /\ right \notin Reach(left)) => Pos(left) < Pos(right)

\* fn applied to a node whose operands are two operators, the left one
\* reachable from the right one
C10_Witness ==
    \E n \in Called :
        /\ IsOperator(n)
        /\ IsOperator(operands(n)[1])
        /\ operands(n)[1] # operands(n)[2]
        /\ operands(n)[1] \in Reach(operands(n)[2])
        /\ operands(n)[2] \notin seenAt[n]

ForwardMethods == {"add", "sub", "mul", "truediv", "pow"}
ReversedMethods == {"radd", "rsub", "rmul", "rtruediv", "rpow"}

KindOf(op) ==
    CASE op \in {"add", "radd"} -> "Add"
      [] op \in {"sub", "rsub"} -> "Sub"
      [] op \in {"mul", "rmul"} -> "Mul"
      [] op \in {"truediv", "rtruediv"} -> "Div"
      [] op \in {"pow", "rpow"} -> "Pow"

\* C5: a binary operation on a node and a node or a number does not fail
\* and returns a new operator of the matching kind; a op b has operands
\* (a, b') with b' = b or a new Number holding b; k op a holds a and a new
\* Number holding k, and for Sub, Div and Pow has operands (Number(k), a).
C5_Construction ==
    (/\ call.op \in ForwardMethods \cup ReversedMethods
     /\ (IsExpression(call.other) \/ IsNumeric(call.other))) =>
        /\ error = "none"
        /\ result = Len(heap)
        /\ heap[result].kind = KindOf(call.op)
        /\ LET a == call.self
               b == IF IsExpression(call.other) THEN call.other.num ELSE result - 1
           IN  /\ a < result /\ b < result
               /\ ~IsExpression(call.other) =>
                      heap[b] = [kind |-> "Number", value |-> call.other, operands |-> <<>>]
               /\ call.op \in ForwardMethods => heap[result].operands = <<a, b>>
               /\ call.op \in {"radd", "rmul"} =>
                      heap[result].operands \in {<<a, b>>, <<b, a>>}
               /\ call.op \in {"rsub", "rtruediv", "rpow"} =>
                      heap[result].operands = <<b, a>>

\* C6: Number of a non-numeric payload and Symbol of a non-text payload
\* fail with a TypeError and give no node; with a payload of the required
\* type the node holds the payload and has no operands.
C6_TypeRejection ==
    /\ (call.op = "Number" /\ ~IsNumeric(call.other)) =>
          (error = "TypeError" /\ result = 0)
    /\ (call.op = "Symbol" /\ ~IsStr(call.other)) =>
          (error = "TypeError" /\ result = 0)
    /\ (call.op = "Number" /\ IsNumeric(call.other)) =>
          /\ error = "none"
          /\ heap[result] = [kind |-> "Number", value |-> call.other, operands |-> <<>>]
    /\ (call.op = "Symbol" /\ IsStr(call.other)) =>
          /\ error = "none"
          /\ heap[result] = [kind |-> "Symbol", value |-> call.other, operands |-> <<>>]

\* the precedences and symbols the rendering contract gives
ContractPrecedence(kind) ==
    CASE kind \in {"Add", "Sub"} -> 1
      [] kind \in {"Mul", "Div"} -> 2
      [] kind = "Pow" -> 3
      [] OTHER -> 4

ContractSymbol(kind) ==
    CASE kind = "Add" -> "+"
      [] kind = "Sub" -> "-"
      [] kind = "Mul" -> "*"
      [] kind = "Div" -> "/"
      [] kind = "Pow" -> "^"

\* the text of a child, in parentheses iff its precedence is strictly lower
Wrapped(child, parent) ==
    IF ContractPrecedence(heap[child].kind) < ContractPrecedence(heap[parent].kind)
    THEN "(" \o Str(heap, child) \o ")"
    ELSE Str(heap, child)

IsSymbol(node, name) == heap[node].kind = "Symbol" /\ heap[node].value = PyStr(name)

\* node is Outer(Inner(a, b), c) of the Symbols a, b, c
LeftNested(node, outer, inner, a, b, c) ==
    /\ heap[node].kind = outer
    /\ heap[operands(node)[1]].kind = inner
    /\ IsSymbol(operands(operands(node)[1])[1], a)
    /\ IsSymbol(operands(operands(node)[1])[2], b)
    /\ IsSymbol(operands(node)[2], c)

\* node is Outer(a, Inner(b, c)) of the Symbols a, b, c
RightNested(node, outer, inner, a, b, c) ==
    /\ heap[node].kind = outer
    /\ IsSymbol(operands(node)[1], a)
    /\ heap[operands(node)[2]].kind = inner
    /\ IsSymbol(operands(operands(node)[2])[1], b)
    /\ IsSymbol(operands(operands(node)[2])[2], c)

\* C7: an operator renders as "<L> <symbol> <R>", each child in parentheses
\* iff its precedence is strictly lower than the operator's, a Terminal as
\* its payload and never in parentheses; Mul(Add(x, y), z) renders as
\* "(x + y) * z" and Add(Mul(x, y), z) as "x * y + z".
C7_Rendering ==
    rendered # 0 =>
        /\ IsOperator(rendered) =>
              out = Wrapped(operands(rendered)[1], rendered)
                        \o " " \o ContractSymbol(heap[rendered].kind) \o " "
                        \o Wrapped(operands(rendered)[2], rendered)
        /\ \A n \in {"x", "y", "z"} : IsSymbol(rendered, n) => out = n
        /\ heap[rendered] = [kind |-> "Number", value |-> PyInt(10), operands |-> <<>>] =>
              out = "10"
        /\ LeftNested(rendered, "Mul", "Add", "x", "y", "z") => out = "(x + y) * z"
        /\ LeftNested(rendered, "Add", "Mul", "x", "y", "z") => out = "x * y + z"
        /\ RightNested(rendered, "Mul", "Add", "x", "y", "z") => out = "x * (y + z)"

\* Mul(Add(x, y), z) has been rendered
C7_Witness ==
    /\ rendered # 0
    /\ LeftNested(rendered, "Mul", "Add", "x", "y", "z")

\* C8: Pow(x, Pow(y, z)) renders as "x ^ y ^ z" and Pow(Pow(x, y), z) as
\* "(x ^ y) ^ z".
C8_PowNesting ==
    rendered # 0 =>
        /\ RightNested(rendered, "Pow", "Pow", "x", "y", "z") => out = "x ^ y ^ z"
        /\ LeftNested(rendered, "Pow", "Pow", "x", "y", "z") => out = "(x ^ y) ^ z"

====
